---- MODULE Spec2Model ----
(***************************************************************************)
(* Scoring and leaderboard aggregation of goofy-guesser.                   *)
(*                                                                         *)
(* The database (tables daily_results, score_adjustments, group_members,   *)
(* the leaderboard_scores view or materialized view, the row level         *)
(* security policies and the refresh triggers) and the client handlers     *)
(* that write to it (submitResult, handleAdjustScore, handleResetScores,   *)
(* joinGroup, leaveGroup) are modelled as one state machine.               *)
(*                                                                         *)
(* Time is counted in whole local days; every client observes the same     *)
(* local date (one timezone).  The specifications of the time zones and of *)
(* the UTC-12 finalized policy follow the clock by the hour, in UTC, and   *)
(* the one of the refresh splits each write into the steps of its          *)
(* transaction.  The handlers of the leaderboard and of the                *)
(* groups panel are modelled without the JSX visibility conditions of the  *)
(* buttons that call them: what a handler and the database accept is what  *)
(* the model accepts.  The game is entered as the groups panel offers it   *)
(* (hasPlayedToday) and as the saved progress restores it.                 *)
(***************************************************************************)
EXTENDS Integers, Sequences, FiniteSets, Bags, TLC

\* ---------------------------------------------------------------- bounds
MaxDay == 1
MaxResults == 2
MaxAdjustments == 2
\* Enter is pressed at most MaxTurn times in one game
MaxTurn == 7
MaxResets == 1

\* ---------------------------------------------------------------- inputs
Users == {"A", "B", "C"}
\* the users that act in Spec and SpecCached
Actors == {"A", "B"}
Groups == {"G1", "G2"}
Tabs == {1, 2}
NULL == "null"
\* guess counts a won game is submitted with (the range is 1..6)
SolvedGuesses == {3, 6}
\* what a finished game is submitted with: a won game with its number of guesses, a lost
\* game with 6
Outcomes ==
  { [guessCount |-> gc, solved |-> TRUE] : gc \in SolvedGuesses }
    \cup { [guessCount |-> 6, solved |-> FALSE] }
\* handleAdjustScore is called with -1 or +1 by the two adjust buttons
Deltas == {-1, 1}
\* the memberships that come and go: the creators stay in their groups
Movers == {<<"B", "G1">>}
\* the groups whose leaderboard dialog is used for adjustments and resets
AdminGroups == {"G1"}
\* the users that open the game in tab t
TabUsers(t) == IF t = 1 THEN {"A", "B"} ELSE {"B"}
\* the user whose createGroup call made the group
Creator(g) == IF g = "G1" THEN "A" ELSE "B"

VARIABLES
  today,          \* current local date, in days
  mode,           \* "view": leaderboard_scores is a VIEW; "matview": a MATERIALIZED VIEW;
                  \* "finalized": the VIEW of the UTC-12 finalized policy
  members,        \* group_members rows
  results,        \* daily_results rows
  adjustments,    \* score_adjustments rows: a bag, rows differ by id and created_at only
  snapshot,       \* contents of the materialized view
  progress,       \* users with a user_game_progress row of today with is_game_over = true
  tabs,           \* browser tabs: GameContent state and the submitResult call in flight
  resets,         \* handleResetScores calls between their two DELETE statements
  hour,           \* hour of the day, where a specification follows the clock by the hour
  txs             \* write transactions of the database that have not committed yet

vars == <<today, mode, members, results, adjustments,
          snapshot, progress, tabs, resets, hour, txs>>

\* ------------------------------------------------------------ SQL helpers
\* SQL equality: a comparison with NULL is never true
SqlEq(a, b) == a # NULL /\ b # NULL /\ a = b

\* MIN() aggregate over a non-empty set of integers
Min(S) == CHOOSE x \in S : \A y \in S : x <= y

RECURSIVE SumAdjustment(_, _)
\* SUM(adjustment) over the rows in the set rows of the table (a bag of rows) adj
SumAdjustment(adj, rows) ==
  IF rows = {} THEN 0
  ELSE LET row == CHOOSE x \in rows : TRUE
       IN  row.adjustment * CopiesIn(row, adj) + SumAdjustment(adj, rows \ {row})

\* ------------------------------------------------------------------ clock
\* the hours of the day at which the clock is read
Hours == {0, 12}

\* new Date() and NOW(): the instant, in hours since 00:00 UTC of day 0
now == today * 24 + hour

\* ------------------------------------------------------- group_members
IsMember(mem, u, g) == \E m \in mem : m.user = u /\ m.group = g

\* EXISTS (SELECT 1 FROM group_members WHERE group_id = g AND user_id = auth.uid()
\*         AND is_admin = true)
IsAdmin(mem, u, g) == \E m \in mem : m.user = u /\ m.group = g /\ m.is_admin

\* ------------------------------------------------- leaderboard_scores
\* daily_winners: MIN(guess_count) of the solved rows, GROUP BY group_id, local_date
daily_winners(res) ==
  { [group |-> k[1], local_date |-> k[2],
     min_guesses |-> Min({ r.guess_count : r \in
                            { q \in res : q.solved /\ q.group = k[1]
                                          /\ q.local_date = k[2] } })] :
    k \in { <<r.group, r.local_date>> : r \in { q \in res : q.solved } } }

\* variant: the join without WHERE dr.solved
point_earners_AnyRow(res) ==
  LET dws == daily_winners(res)
  IN  { dr \in res :
          \E dw \in dws :
            /\ SqlEq(dr.group, dw.group)
            /\ dr.local_date = dw.local_date
            /\ dr.guess_count = dw.min_guesses }

\* point_earners: the solved rows that match the minimum of their group and date;
\* every such row is one row of the join, worth 1 point
point_earners(res) ==
  LET dws == daily_winners(res)
  IN  { dr \in res :
          /\ dr.solved
          /\ \E dw \in dws :
               /\ SqlEq(dr.group, dw.group)
               /\ dr.local_date = dw.local_date
               /\ dr.guess_count = dw.min_guesses }

\* earned_scores: SUM(points) GROUP BY group_id, user_id
earned_scores(res) ==
  LET pes == point_earners(res)
  IN  { [group |-> k[1], user |-> k[2],
         earned_points |-> Cardinality({ pe \in pes : pe.group = k[1] /\ pe.user = k[2] })] :
        k \in { <<pe.group, pe.user>> : pe \in pes } }

\* variant: COUNT(*) in place of SUM(adjustment)
adjustment_totals_Count(adj) ==
  { [group |-> k[1], user |-> k[2],
     adjustment_points |->
       BagCardinality([ a \in { x \in BagToSet(adj) : x.group = k[1] /\ x.user = k[2] }
                        |-> CopiesIn(a, adj) ])] :
    k \in { <<a.group, a.user>> : a \in BagToSet(adj) } }

\* adjustment_totals: SUM(adjustment) GROUP BY group_id, user_id
adjustment_totals(adj) ==
  { [group |-> k[1], user |-> k[2],
     adjustment_points |->
       SumAdjustment(adj, { a \in BagToSet(adj) : a.group = k[1] /\ a.user = k[2] })] :
    k \in { <<a.group, a.user>> : a \in BagToSet(adj) } }

\* COALESCE(es.earned_points, 0) for the row of es joined to member (g, u), if any
EarnedOrZero(es, g, u) ==
  LET rows == { e \in es : e.group = g /\ e.user = u }
  IN  IF rows = {} THEN 0 ELSE (CHOOSE e \in rows : TRUE).earned_points

\* COALESCE(at.adjustment_points, 0) for the row of at joined to member (g, u), if any
AdjustmentOrZero(at, g, u) ==
  LET rows == { a \in at : a.group = g /\ a.user = u }
  IN  IF rows = {} THEN 0 ELSE (CHOOSE a \in rows : TRUE).adjustment_points

\* variant: JOIN earned_scores in place of LEFT JOIN earned_scores
leaderboard_scores_InnerJoin(mem, res, adj) ==
  LET es == earned_scores(res)
      at == adjustment_totals(adj)
  IN  { [group |-> cm.group, user |-> cm.user,
         total_score |-> EarnedOrZero(es, cm.group, cm.user)
                         + AdjustmentOrZero(at, cm.group, cm.user),
         games_won |-> EarnedOrZero(es, cm.group, cm.user)] :
        cm \in { m \in mem : \E e \in es : e.group = m.group /\ e.user = m.user } }

\* variant: a personal play (group_id IS NULL) counts as a play in the member's group
leaderboard_scores_CountPersonal(mem, res, adj) ==
  LET playsIn(g) == { [r EXCEPT !.group = IF r.group = NULL THEN g ELSE r.group] :
                      r \in res }
      at == adjustment_totals(adj)
  IN  { [group |-> cm.group, user |-> cm.user,
         total_score |-> EarnedOrZero(earned_scores(playsIn(cm.group)), cm.group, cm.user)
                         + AdjustmentOrZero(at, cm.group, cm.user),
         games_won |-> EarnedOrZero(earned_scores(playsIn(cm.group)), cm.group, cm.user)] :
        cm \in mem }

\* variant: daily_winners and point_earners over the results of current members only
leaderboard_scores_MembersOnly(mem, res, adj) ==
  LET es == earned_scores({ r \in res : IsMember(mem, r.user, r.group) })
      at == adjustment_totals(adj)
  IN  { [group |-> cm.group, user |-> cm.user,
         total_score |-> EarnedOrZero(es, cm.group, cm.user)
                         + AdjustmentOrZero(at, cm.group, cm.user),
         games_won |-> EarnedOrZero(es, cm.group, cm.user)] : cm \in mem }

\* the final SELECT: current_members LEFT JOIN earned_scores LEFT JOIN adjustment_totals
leaderboard_scores(mem, res, adj) ==
  LET es == earned_scores(res)
      at == adjustment_totals(adj)
  IN  { [group |-> cm.group, user |-> cm.user,
         total_score |-> EarnedOrZero(es, cm.group, cm.user)
                         + AdjustmentOrZero(at, cm.group, cm.user),
         games_won |-> EarnedOrZero(es, cm.group, cm.user)] : cm \in mem }

\* ------------------------------------- leaderboard_scores, UTC-12 finalized
\* variant: a day is finalized at the next midnight UTC
is_day_finalized_NextMidnight(check_date) == now >= check_date * 24 + 24

\* is_day_finalized: NOW() >= check_date + INTERVAL '1 day' + INTERVAL '12 hours', the
\* date being 00:00 UTC of the day
is_day_finalized(check_date) == now >= check_date * 24 + 24 + 12

\* variant: every row of daily_results, finalized or not
finalized_days_All(res) ==
  { [user |-> r.user, group |-> r.group, day_index |-> r.day_index,
     guess_count |-> r.guess_count, solved |-> r.solved, local_date |-> r.utc_date] :
    r \in res }

\* finalized_days: the rows with NOW() >= utc_date + 1 day + 12 hours. The CTEs that
\* follow are those of the view above with utc_date as the date column, so the
\* rows are handed on with their utc_date in that column.
finalized_days(res) ==
  { [user |-> r.user, group |-> r.group, day_index |-> r.day_index,
     guess_count |-> r.guess_count, solved |-> r.solved, local_date |-> r.utc_date] :
    r \in { x \in res : now >= x.utc_date * 24 + 24 + 12 } }

\* the view of utc_scoring.sql
leaderboard_scores_finalized(mem, res, adj) ==
  leaderboard_scores(mem, finalized_days(res), adj)

\* pending_daily_results: the rows of groups with NOW() < utc_date + 1 day + 12 hours
pending_daily_results ==
  { r \in results : r.group # NULL /\ now < r.utc_date * 24 + 24 + 12 }

\* ------------------------------------------------------------ materialized
\* REFRESH MATERIALIZED VIEW CONCURRENTLY leaderboard_scores, run by the statement
\* triggers; without the materialized view there is nothing to refresh. The query of
\* the materialized view is the one of the view with utc_date as the date column and
\* all_members for current_members; on the single clock of this model the two dates
\* of a row are the same day.
refresh_leaderboard(mem, res, adj) ==
  snapshot' = IF mode = "matview" THEN leaderboard_scores(mem, res, adj) ELSE snapshot

\* the rows a SELECT on leaderboard_scores returns
Served ==
  IF mode = "view" THEN leaderboard_scores(members, results, adjustments)
  ELSE IF mode = "finalized"
       THEN leaderboard_scores_finalized(members, results, adjustments)
       ELSE snapshot

\* fetchLeaderboard: select * from leaderboard_scores where group_id = g
getLeaderboard(g) == { e \in Served : e.group = g }

\* ------------------------------------------------------ useGameResults
\* local midnight of day d, in hours since local midnight of day 0
LocalMidnight(d) == d * 24

\* calculateDayIndex: whole days between the local midnights of joined_at and of now
calculateDayIndex(joinedAt) == (LocalMidnight(today) - LocalMidnight(joinedAt)) \div 24

\* getLocalDate: the local calendar date of now
getLocalDate == today

\* rows of daily_results user u may SELECT: results of the groups u is a member of,
\* and u's own personal plays
CanSelectResult(u, r) ==
  \/ IsMember(members, u, r.group)
  \/ r.group = NULL /\ r.user = u

\* table constraints of daily_results for a new row
CheckGuessCount(row) == row.guess_count >= 1 /\ row.guess_count <= 6

UniqueUserGroupDay(row) ==
  ~ \E r \in results : /\ SqlEq(r.group, row.group)
                       /\ r.user = row.user
                       /\ r.day_index = row.day_index

UniquePersonalPlay(row) ==
  row.group = NULL =>
    ~ \E r \in results : /\ r.group = NULL
                         /\ r.user = row.user
                         /\ r.local_date = row.local_date

\* the error an INSERT of row into daily_results fails with, or NULL
InsertResultError(row) ==
  IF ~ CheckGuessCount(row) THEN "check_violation"
  ELSE IF ~ UniqueUserGroupDay(row) \/ ~ UniquePersonalPlay(row) THEN "unique_violation"
  ELSE NULL

NoCur == [group |-> NULL, day_index |-> 0]

ClosedTab ==
  [st |-> "closed", user |-> NULL, groups |-> {}, localDate |-> 0, todo |-> {},
   cur |-> NoCur]

\* what submitResult leaves behind when it returns: resultSubmitted is set
DoneTab(tab) == [ClosedTab EXCEPT !.st = "done", !.user = tab.user]

\* fetchGroups: the memberships of u, with their joined_at
fetchGroups(u) ==
  { [id |-> m.group, joined_at |-> m.joined_at] : m \in { x \in members : x.user = u } }

\* hasSubmittedToday: a row of the user for the group with local_date = today
hasSubmittedToday(u, g) ==
  \E r \in results : r.user = u /\ SqlEq(r.group, g) /\ r.local_date = getLocalDate

\* hasPlayedTodayPersonal: a row of the user with group_id IS NULL and local_date = today
hasPlayedTodayPersonal(u) ==
  \E r \in results : r.user = u /\ r.group = NULL /\ r.local_date = getLocalDate

\* checkPlayedStatus: the value of hasPlayedToday once the groups gs are loaded
checkPlayedStatus(u, gs) ==
  hasPlayedTodayPersonal(u) \/ \E g \in gs : hasSubmittedToday(u, g.id)

\* The page is loaded in tab t by user u: useGroups fetches the groups and the panel
\* offers today's game unless hasPlayedToday; the game view is entered and
\* loadGameProgressDB restores a finished game (resultSubmitted = true).
OpenGame(t, u) ==
  /\ tabs[t].st = "closed"
  /\ tabs' = [tabs EXCEPT ![t] =
       IF checkPlayedStatus(u, fetchGroups(u)) \/ u \in progress
       THEN DoneTab([ClosedTab EXCEPT !.user = u])
       ELSE [ClosedTab EXCEPT !.st = "playing", !.user = u, !.groups = fetchGroups(u)]]
  /\ UNCHANGED <<hour, txs, today, mode, members, results, adjustments,
                 snapshot, progress, resets>>

\* submitResult at the head of the for loop with the groups in rest still to visit: the
\* loop ends, or the body starts for one of them and computes its dayIndex
Iterate(tab, rest) ==
  IF rest = {} THEN { DoneTab(tab) }
  ELSE { [tab EXCEPT !.st = "check", !.todo = rest \ {grp},
                     !.cur = [group |-> grp.id,
                              day_index |-> calculateDayIndex(grp.joined_at)]] :
         grp \in rest }

\* The deciding guess is entered: handleEnter saves the finished game, then the game-end
\* effect calls handleGameEnd, which calls submitResult(groups, {guessCount, solved}).
GameEnd(t) ==
  /\ tabs[t].st = "playing"
  /\ progress' = progress \cup {tabs[t].user}
  /\ LET groups == tabs[t].groups
         tab == [tabs[t] EXCEPT !.localDate = getLocalDate, !.groups = {}]
     IN  \E nxt \in IF groups = {} THEN { [tab EXCEPT !.st = "pcheck"] }
                    ELSE Iterate(tab, groups) :
           tabs' = [tabs EXCEPT ![t] = nxt]
  /\ UNCHANGED <<hour, txs, today, mode, members, results, adjustments,
                 snapshot, resets>>

\* submitResult, the existence check of the loop body ("already submitted for this day")
SubmitCheck(t) ==
  /\ tabs[t].st = "check"
  /\ LET tab == tabs[t]
         existing == \E r \in results :
                        /\ CanSelectResult(tab.user, r)
                        /\ r.user = tab.user
                        /\ SqlEq(r.group, tab.cur.group)
                        /\ r.day_index = tab.cur.day_index
     IN  \E nxt \in IF existing THEN Iterate([tab EXCEPT !.cur = NoCur], tab.todo)
                    ELSE { [tab EXCEPT !.st = "insert"] } :
           tabs' = [tabs EXCEPT ![t] = nxt]
  /\ UNCHANGED <<hour, txs, today, mode, members, results, adjustments,
                 snapshot, progress, resets>>

\* variant: local_date is taken again from the clock when the row is inserted
SubmitInsert_DateAtInsert(t, gc, sv) ==
  /\ tabs[t].st = "insert"
  /\ LET tab == tabs[t]
         row == [user |-> tab.user, group |-> tab.cur.group,
                 day_index |-> tab.cur.day_index, guess_count |-> gc,
                 solved |-> sv, local_date |-> getLocalDate]
         err == InsertResultError(row)
         after == [tab EXCEPT !.cur = NoCur]
     IN  /\ IF err = NULL
            THEN /\ results' = results \cup {row}
                 /\ refresh_leaderboard(members, results', adjustments)
            ELSE UNCHANGED <<results, snapshot>>
         /\ \E nxt \in Iterate(after, tab.todo) : tabs' = [tabs EXCEPT ![t] = nxt]
  /\ UNCHANGED <<hour, txs, today, mode, members, adjustments, progress, resets>>

\* submitResult, the INSERT of the loop body and the AFTER INSERT statement trigger
SubmitInsert(t, gc, sv) ==
  /\ tabs[t].st = "insert"
  /\ LET tab == tabs[t]
         row == [user |-> tab.user, group |-> tab.cur.group,
                 day_index |-> tab.cur.day_index, guess_count |-> gc,
                 solved |-> sv, local_date |-> tab.localDate]
         err == InsertResultError(row)
         after == [tab EXCEPT !.cur = NoCur]
     IN  /\ IF err = NULL
            THEN /\ results' = results \cup {row}
                 /\ refresh_leaderboard(members, results', adjustments)
            ELSE UNCHANGED <<results, snapshot>>
         /\ \E nxt \in Iterate(after, tab.todo) : tabs' = [tabs EXCEPT ![t] = nxt]
  /\ UNCHANGED <<hour, txs, today, mode, members, adjustments, progress, resets>>

\* submitPersonalResult up to the existence check
PersonalCheck(t) ==
  /\ tabs[t].st = "pcheck"
  /\ LET existing == \E r \in results :
                        /\ CanSelectResult(tabs[t].user, r)
                        /\ r.user = tabs[t].user
                        /\ r.group = NULL
                        /\ r.local_date = tabs[t].localDate
     IN  tabs' = [tabs EXCEPT ![t] =
           IF existing THEN DoneTab(@)
           ELSE [@ EXCEPT !.st = "pinsert"]]
  /\ UNCHANGED <<hour, txs, today, mode, members, results, adjustments,
                 snapshot, progress, resets>>

\* submitPersonalResult, the INSERT and the AFTER INSERT statement trigger
PersonalInsert(t, gc, sv) ==
  /\ tabs[t].st = "pinsert"
  /\ LET tab == tabs[t]
         row == [user |-> tab.user, group |-> NULL, day_index |-> 0,
                 guess_count |-> gc, solved |-> sv,
                 local_date |-> tab.localDate]
         err == InsertResultError(row)
     IN  /\ IF err = NULL
            THEN /\ results' = results \cup {row}
                 /\ refresh_leaderboard(members, results', adjustments)
            ELSE UNCHANGED <<results, snapshot>>
         /\ tabs' = [tabs EXCEPT ![t] = DoneTab(tab)]
  /\ UNCHANGED <<hour, txs, today, mode, members, adjustments, progress, resets>>

\* the tab is closed or reloaded: its React state is gone
CloseTab(t) ==
  /\ tabs[t].st # "closed"
  /\ tabs' = [tabs EXCEPT ![t] = ClosedTab]
  /\ UNCHANGED <<hour, txs, today, mode, members, results, adjustments,
                 snapshot, progress, resets>>

\* ----------------------------------------------------------- the game board
\* the React state of a new game: turn, finalGuessCountRef, isGameWon, isGameOver and
\* the setTimeout callbacks that are pending
NewBoard == [turn |-> 0, final |-> 0, won |-> FALSE, over |-> FALSE, timers |-> << >>]

\* OpenGame, with the state of the board
EnterGame(t, u) ==
  /\ tabs[t].st = "closed"
  /\ tabs' = [tabs EXCEPT ![t] =
       IF checkPlayedStatus(u, fetchGroups(u)) \/ u \in progress
       THEN DoneTab([ClosedTab EXCEPT !.user = u])
       ELSE [st |-> "playing", user |-> u, groups |-> fetchGroups(u), localDate |-> 0,
             todo |-> {}, cur |-> NoCur, board |-> NewBoard]]
  /\ UNCHANGED <<hour, txs, today, mode, members, results, adjustments,
                 snapshot, progress, resets>>

\* handleEnter with a valid guess of five letters; correct: currentGuess === solution.
\* The keydown listener and the keyboard call it as long as isGameOver is false.
handleEnter(t, correct) ==
  /\ tabs[t].st = "playing"
  /\ ~ tabs[t].board.over
  /\ tabs[t].board.turn < MaxTurn
  /\ LET b == tabs[t].board
         u == tabs[t].user
     IN  IF correct
         THEN /\ tabs' = [tabs EXCEPT ![t].board =
                           [b EXCEPT !.final = b.turn + 1, !.turn = b.turn + 1,
                                     !.timers = Append(b.timers, "won")]]
              /\ progress' = progress \cup {u}
         ELSE IF b.turn = 5
         THEN /\ tabs' = [tabs EXCEPT ![t].board =
                           [b EXCEPT !.final = 6, !.turn = 6,
                                     !.timers = Append(b.timers, "lost")]]
              /\ progress' = progress \cup {u}
         ELSE /\ tabs' = [tabs EXCEPT ![t].board = [b EXCEPT !.turn = b.turn + 1]]
              /\ progress' = progress \ {u}
  /\ UNCHANGED <<hour, txs, today, mode, members, results, adjustments, snapshot, resets>>

\* the board after the callback at position i of the pending timers has run
AfterTimer(b, i) ==
  [b EXCEPT !.won = b.won \/ b.timers[i] = "won",
            !.over = TRUE,
            !.timers = SubSeq(b.timers, 1, i - 1) \o SubSeq(b.timers, i + 1, Len(b.timers))]

\* a setTimeout callback of handleEnter runs: the oldest one, or a later one of the
\* shorter delay (2000 ms after a lost game, 2500 ms after a won one)
GameTimeout(t) ==
  /\ tabs[t].st = "playing"
  /\ LET b == tabs[t].board
     IN  \E i \in 1..Len(b.timers) :
           /\ \A j \in 1..(i - 1) : b.timers[j] = "won" /\ b.timers[i] = "lost"
           /\ tabs' = [tabs EXCEPT ![t].board = AfterTimer(b, i)]
  /\ UNCHANGED <<hour, txs, today, mode, members, results, adjustments,
                 snapshot, progress, resets>>

\* the game-end effect: isGameOver is true, so handleGameEnd calls
\* submitResult(groups, {guessCount: finalGuessCountRef.current, solved: isGameWon})
handleGameEnd(t) ==
  /\ tabs[t].st = "playing"
  /\ tabs[t].board.over
  /\ LET groups == tabs[t].groups
         tab == [tabs[t] EXCEPT !.localDate = getLocalDate, !.groups = {}]
     IN  \E nxt \in IF groups = {} THEN { [tab EXCEPT !.st = "pcheck"] }
                    ELSE Iterate(tab, groups) :
           tabs' = [tabs EXCEPT ![t] = nxt]
  /\ UNCHANGED <<hour, txs, today, mode, members, results, adjustments,
                 snapshot, progress, resets>>

\* -------------------------------------------------------------- useGroups
\* joinGroup: not yet a member, so a group_members row is inserted (joined_at = NOW(),
\* is_admin = false by default)
joinGroup(u, g) ==
  /\ ~ IsMember(members, u, g)
  /\ members' = members \cup
       {[user |-> u, group |-> g, joined_at |-> today, is_admin |-> FALSE]}
  /\ UNCHANGED <<hour, txs, today, mode, results, adjustments, snapshot,
                 progress, tabs, resets>>

\* variant: leaving deletes the results of the user in the group as well
leaveGroup_DeleteResults(u, g) ==
  /\ IsMember(members, u, g)
  /\ members' = { m \in members : ~ (m.user = u /\ m.group = g) }
  /\ results' = { r \in results : ~ (r.user = u /\ r.group = g) }
  /\ UNCHANGED <<hour, txs, today, mode, adjustments, snapshot,
                 progress, tabs, resets>>

\* leaveGroup: the caller's own membership row is deleted
leaveGroup(u, g) ==
  /\ IsMember(members, u, g)
  /\ members' = { m \in members : ~ (m.user = u /\ m.group = g) }
  /\ UNCHANGED <<hour, txs, today, mode, results, adjustments, snapshot,
                 progress, tabs, resets>>

\* ------------------------------------------------------------ Leaderboard
\* variant: WITH CHECK on membership, without is_admin = true
CanInsertAdjustment_Member(actor, row) == IsMember(members, actor, row.group)

\* policy "Admins can insert adjustments": WITH CHECK on the new row
CanInsertAdjustment(actor, row) == IsAdmin(members, actor, row.group)

\* handleAdjustScore: INSERT INTO score_adjustments, and the statement trigger
handleAdjustScore(actor, g, target, delta) ==
  /\ delta # 0
  /\ LET row == [user |-> target, group |-> g, adjustment |-> delta,
                 adjusted_by |-> actor]
     IN  IF CanInsertAdjustment(actor, row)
         THEN /\ adjustments' = adjustments (+) SetToBag({row})
              /\ refresh_leaderboard(members, results, adjustments')
         ELSE UNCHANGED <<adjustments, snapshot>>
  /\ UNCHANGED <<hour, txs, today, mode, members, results, progress, tabs, resets>>

\* variant: USING on membership, without is_admin = true
CanDeleteResult_Member(actor, r) == IsMember(members, actor, r.group)

\* policy "Admins can delete results in their groups (for reset)": USING on each row
CanDeleteResult(actor, r) == IsAdmin(members, actor, r.group)

\* score_adjustments has row level security enabled and no policy FOR DELETE
CanDeleteAdjustment(actor, a) == FALSE

\* handleResetScores, first statement: DELETE FROM daily_results WHERE group_id = g
ResetResults(actor, g) ==
  /\ <<actor, g>> \notin resets
  /\ resets' = resets \cup {<<actor, g>>}
  /\ results' = { r \in results : ~ (SqlEq(r.group, g) /\ CanDeleteResult(actor, r)) }
  /\ refresh_leaderboard(members, results', adjustments)
  /\ UNCHANGED <<hour, txs, today, mode, members, adjustments, progress, tabs>>

\* handleResetScores, second statement: DELETE FROM score_adjustments WHERE group_id = g
ResetAdjustments(actor, g) ==
  /\ <<actor, g>> \in resets
  /\ resets' = resets \ {<<actor, g>>}
  /\ adjustments' = [ a \in { x \in BagToSet(adjustments) :
                                  ~ (x.group = g /\ CanDeleteAdjustment(actor, x)) } |->
                        adjustments[a] ]
  /\ refresh_leaderboard(members, results, adjustments')
  /\ UNCHANGED <<hour, txs, today, mode, members, results, progress, tabs>>

\* ------------------------------------------------------------------ clock
\* local midnight passes
Tick ==
  /\ today < MaxDay
  /\ today' = today + 1
  /\ progress' = {}
  /\ UNCHANGED <<hour, txs, mode, members, results, adjustments, snapshot, tabs, resets>>

\* ------------------------------------------------------------- time zones
\* the offsets from UTC, in hours, of the devices the game is played on: UTC-12 and
\* UTC+14 are the ends of the range
Zones == {-12, 0, 14}

\* the clock moves on to the next hour it is read at
Advance ==
  /\ LET later == { h \in Hours : h > hour }
     IN  IF later # {}
         THEN hour' = Min(later) /\ today' = today
         ELSE today < MaxDay /\ hour' = Min(Hours) /\ today' = today + 1
  /\ UNCHANGED <<txs, mode, members, results, adjustments, snapshot, progress, tabs,
                 resets>>

\* variant: the date is cut from toISOString(), which prints the instant in UTC
getLocalDateAt_Utc(tz) == now \div 24

\* getLocalDate on a device whose local time is tz hours ahead of UTC: getFullYear,
\* getMonth and getDate give the date of the local time
getLocalDateAt(tz) == (now + tz) \div 24

\* hasPlayedTodayPersonal on a device in zone tz
hasPlayedTodayPersonalAt(u, tz) ==
  \E r \in results : r.user = u /\ r.group = NULL /\ r.local_date = getLocalDateAt(tz)

\* OpenGame by a user without groups on a device in zone tz; user_game_progress is
\* keyed by user and local date, progress holds these keys
OpenGameAt(t, u, tz) ==
  /\ tabs[t].st = "closed"
  /\ fetchGroups(u) = {}
  /\ tabs' = [tabs EXCEPT ![t] =
       IF hasPlayedTodayPersonalAt(u, tz) \/ <<u, getLocalDateAt(tz)>> \in progress
       THEN DoneTab([ClosedTab EXCEPT !.user = u])
       ELSE [st |-> "playing", user |-> u, groups |-> {}, localDate |-> 0,
             todo |-> {}, cur |-> NoCur, tz |-> tz]]
  /\ UNCHANGED <<hour, txs, today, mode, members, results, adjustments,
                 snapshot, progress, resets>>

\* GameEnd on a device in a zone: handleGameEnd calls submitPersonalResult, which
\* reads getLocalDate
GameEndAt(t) ==
  /\ tabs[t].st = "playing"
  /\ LET localDate == getLocalDateAt(tabs[t].tz)
     IN  /\ progress' = progress \cup {<<tabs[t].user, localDate>>}
         /\ tabs' = [tabs EXCEPT ![t] = [@ EXCEPT !.st = "pcheck",
                                                  !.localDate = localDate]]
  /\ UNCHANGED <<hour, txs, today, mode, members, results, adjustments,
                 snapshot, resets>>

\* ---------------------------------- useGameResults, UTC-12 finalized policy
\* getUtcDate, and getLocalDate of this version: the date that toISOString() prints
getUtcDate == now \div 24

\* The page of this version is loaded by a user with groups: hasPlayedToday is
\* hasSubmittedToday for one of the groups; no progress is saved, and handleGameEnd
\* returns at once for a user without groups.
OpenGameUtc(t, u) ==
  /\ tabs[t].st = "closed"
  /\ fetchGroups(u) # {}
  /\ tabs' = [tabs EXCEPT ![t] =
       IF \E g \in fetchGroups(u) : hasSubmittedToday(u, g.id)
       THEN DoneTab([ClosedTab EXCEPT !.user = u])
       ELSE [ClosedTab EXCEPT !.st = "playing", !.user = u, !.groups = fetchGroups(u)]]
  /\ UNCHANGED <<hour, txs, today, mode, members, results, adjustments,
                 snapshot, progress, resets>>

\* the game ends: handleGameEnd calls submitResult(groups, {guessCount, solved})
GameEndUtc(t) ==
  /\ tabs[t].st = "playing"
  /\ LET tab == [tabs[t] EXCEPT !.localDate = getUtcDate, !.groups = {}]
     IN  \E nxt \in Iterate(tab, tabs[t].groups) : tabs' = [tabs EXCEPT ![t] = nxt]
  /\ UNCHANGED <<hour, txs, today, mode, members, results, adjustments,
                 snapshot, progress, resets>>

\* submitResult of this version, the INSERT of the loop body: utc_date is getUtcDate()
\* at the insert
SubmitInsertUtc(t, gc, sv) ==
  /\ tabs[t].st = "insert"
  /\ LET tab == tabs[t]
         row == [user |-> tab.user, group |-> tab.cur.group,
                 day_index |-> tab.cur.day_index, guess_count |-> gc,
                 solved |-> sv, local_date |-> tab.localDate, utc_date |-> getUtcDate]
         err == InsertResultError(row)
         after == [tab EXCEPT !.cur = NoCur]
     IN  /\ results' = IF err = NULL THEN results \cup {row} ELSE results
         /\ \E nxt \in Iterate(after, tab.todo) : tabs' = [tabs EXCEPT ![t] = nxt]
  /\ UNCHANGED <<hour, txs, today, mode, members, adjustments, snapshot, progress,
                 resets>>

\* ------------------------------------------------ transactions, cached mode
\* the table-level lock modes of PostgreSQL that meet on the materialized view: a lock
\* that is held against a lock that is wanted
Conflicts(held, wanted) ==
  \/ held = "AccessExclusiveLock"
  \/ held = "ExclusiveLock" /\ wanted # "AccessShareLock"

\* variant: REFRESH MATERIALIZED VIEW without CONCURRENTLY
RefreshLock_Plain == "AccessExclusiveLock"

\* the lock that REFRESH MATERIALIZED VIEW CONCURRENTLY holds on the materialized view
\* until its transaction ends
RefreshLock == "ExclusiveLock"

\* the lock of a SELECT on the materialized view
SelectLock == "AccessShareLock"

\* the transactions that have run their refresh and hold its lock
Refreshing == { tx \in txs : tx.st = "refreshed" }

\* a SELECT on leaderboard_scores has to wait
ReadBlocked == \E tx \in Refreshing : Conflicts(RefreshLock, SelectLock)

\* The statement of a write has run and its AFTER trigger calls refresh_leaderboard: the
\* REFRESH statement starts in the transaction of the write. It takes its snapshot,
\* the committed rows and the rows of its own transaction, when it starts, and
\* then asks for the lock.
BeginTx(id, res, adj) ==
  txs' = txs \cup
    { [id |-> id, res |-> res, adj |-> adj, st |-> "waiting", fresh |-> {},
       seen |-> [members |-> members, results |-> results \cup res,
                 adjustments |-> adjustments (+) adj]] }

\* submitResult, the INSERT of the loop body, as a transaction of its own: a row with
\* the key of a row that is not committed yet waits for that transaction
BeginInsert(t, gc, sv) ==
  /\ tabs[t].st = "insert"
  /\ ~ \E tx \in txs : tx.id = t
  /\ LET tab == tabs[t]
         row == [user |-> tab.user, group |-> tab.cur.group,
                 day_index |-> tab.cur.day_index, guess_count |-> gc,
                 solved |-> sv, local_date |-> tab.localDate]
         err == InsertResultError(row)
     IN  /\ ~ \E tx \in txs : \E r \in tx.res :
                r.user = row.user /\ r.group = row.group /\ r.day_index = row.day_index
         /\ IF err = NULL
            THEN /\ BeginTx(t, {row}, EmptyBag)
                 /\ tabs' = [tabs EXCEPT ![t] = [tab EXCEPT !.st = "commit"]]
            ELSE /\ txs' = txs
                 /\ \E nxt \in Iterate([tab EXCEPT !.cur = NoCur], tab.todo) :
                      tabs' = [tabs EXCEPT ![t] = nxt]
  /\ UNCHANGED <<hour, today, mode, members, results, adjustments, snapshot, progress,
                 resets>>

\* handleAdjustScore as a transaction of its own
BeginAdjust(actor, g, target, delta) ==
  /\ delta # 0
  /\ ~ \E tx \in txs : tx.id = 0
  /\ LET row == [user |-> target, group |-> g, adjustment |-> delta,
                 adjusted_by |-> actor]
     IN  /\ CanInsertAdjustment(actor, row)
         /\ BeginTx(0, {}, SetToBag({row}))
  /\ UNCHANGED <<hour, today, mode, members, results, adjustments, snapshot, progress,
                 tabs, resets>>

\* REFRESH MATERIALIZED VIEW CONCURRENTLY gets its lock and runs the query of the
\* materialized view on the snapshot of the statement; the new contents are written
\* in the transaction
RefreshTx(id) ==
  /\ \E tx \in txs :
       /\ tx.id = id
       /\ tx.st = "waiting"
       /\ ~ \E o \in Refreshing : Conflicts(RefreshLock, RefreshLock)
       /\ txs' = (txs \ {tx}) \cup
                   { [tx EXCEPT !.st = "refreshed",
                                !.fresh = leaderboard_scores(tx.seen.members,
                                                             tx.seen.results,
                                                             tx.seen.adjustments)] }
  /\ UNCHANGED <<hour, today, mode, members, results, adjustments, snapshot, progress,
                 tabs, resets>>

\* COMMIT: the rows of the write and the new contents of the materialized view become
\* visible together, the lock is released and the request of the tab returns
CommitTx(id) ==
  /\ \E tx \in Refreshing :
       /\ tx.id = id
       /\ results' = results \cup tx.res
       /\ adjustments' = adjustments (+) tx.adj
       /\ snapshot' = tx.fresh
       /\ txs' = txs \ {tx}
  /\ IF id \in Tabs /\ tabs[id].st = "commit"
     THEN \E nxt \in Iterate([tabs[id] EXCEPT !.cur = NoCur], tabs[id].todo) :
            tabs' = [tabs EXCEPT ![id] = nxt]
     ELSE tabs' = tabs
  /\ UNCHANGED <<hour, today, mode, members, progress, resets>>

\* variant: the failed refresh leaves the rows it had already written
FailTx_HalfWritten(id) ==
  /\ \E tx \in txs :
       /\ tx.id = id
       /\ tx.st \in {"waiting", "refreshed"}
       /\ txs' = (txs \ {tx}) \cup { [tx EXCEPT !.st = "aborted"] }
       /\ \E part \in SUBSET tx.fresh :
            snapshot' = part \cup { e \in snapshot :
                                      ~ \E f \in part : f.user = e.user /\ f.group = e.group }
  /\ UNCHANGED <<hour, today, mode, members, results, adjustments, progress,
                 tabs, resets>>

\* The REFRESH of a transaction fails (statement timeout while it waits for the lock or
\* runs, deadlock, lost connection): refresh_leaderboard has no exception handler, the
\* error leaves the trigger and the statement of the write, and the transaction is
\* rolled back with the write and with what the refresh had written
FailTx(id) ==
  /\ \E tx \in txs :
       /\ tx.id = id
       /\ tx.st \in {"waiting", "refreshed"}
       /\ txs' = (txs \ {tx}) \cup { [tx EXCEPT !.st = "aborted"] }
  /\ UNCHANGED <<hour, today, mode, members, results, adjustments, snapshot, progress,
                 tabs, resets>>

\* the request of a transaction that was rolled back returns with the error: submitResult
\* pushes it to errors and goes on with the loop, handleAdjustScore ignores it
ReturnTx(id) ==
  /\ \E tx \in txs :
       /\ tx.id = id
       /\ tx.st = "aborted"
       /\ txs' = txs \ {tx}
  /\ IF id \in Tabs /\ tabs[id].st = "commit"
     THEN \E nxt \in Iterate([tabs[id] EXCEPT !.cur = NoCur], tabs[id].todo) :
            tabs' = [tabs EXCEPT ![id] = nxt]
     ELSE tabs' = tabs
  /\ UNCHANGED <<hour, today, mode, members, results, adjustments, snapshot, progress,
                 resets>>

\* fetchLeaderboard in the dialog of a group of the user, opened from the groups
\* panel after the game: one SELECT, which sees the committed contents
fetchLeaderboard(t, g) ==
  /\ tabs[t].st = "done"
  /\ IsMember(members, tabs[t].user, g)
  /\ ~ ReadBlocked
  /\ tabs' = [tabs EXCEPT ![t] =
       [st |-> "board", user |-> tabs[t].user, groups |-> {}, localDate |-> 0,
        todo |-> {}, cur |-> NoCur, group |-> g, entries |-> getLeaderboard(g)]]
  /\ UNCHANGED <<hour, txs, today, mode, members, results, adjustments,
                 snapshot, progress, resets>>

\* The game-end effect of the page of tab t runs again while its submitResult call is
\* awaited (handleGameEnd was created again because one of its dependencies changed):
\* resultSubmitted is still false, so handleGameEnd calls submitResult once more. The
\* second call of the page runs in the free slot s.
RerunGameEnd(t, s) ==
  /\ tabs[t].st \in {"check", "insert", "pcheck", "pinsert"}
  /\ tabs[s].st = "closed"
  /\ LET groups == fetchGroups(tabs[t].user)
         tab == [ClosedTab EXCEPT !.user = tabs[t].user, !.localDate = getLocalDate]
     IN  \E nxt \in IF groups = {} THEN { [tab EXCEPT !.st = "pcheck"] }
                    ELSE Iterate(tab, groups) :
           tabs' = [tabs EXCEPT ![s] = nxt]
  /\ UNCHANGED <<hour, txs, today, mode, members, results, adjustments,
                 snapshot, progress, resets>>

\* ---------------------------------------------------------- specification
\* the schema is installed and createGroup was called for each group: the trigger
\* on_group_created made the creator an admin member
InitDb ==
  /\ today = 0
  /\ hour = 0
  /\ txs = {}
  /\ members = { [user |-> Creator(g), group |-> g, joined_at |-> 0, is_admin |-> TRUE] :
                 g \in {"G1"} }
  /\ results = {}
  /\ adjustments = EmptyBag
  /\ progress = {}
  /\ tabs = [t \in Tabs |-> ClosedTab]
  /\ resets = {}

\* leaderboard_scores is the plain view (recompute on read)
Init ==
  /\ InitDb
  /\ mode = "view"
  /\ snapshot = {}

\* leaderboard_scores is the materialized view, refreshed once when created
InitCached ==
  /\ InitDb
  /\ mode = "matview"
  /\ snapshot = leaderboard_scores(members, results, adjustments)

\* the tables are kept within the bounds
RoomForResult == Cardinality(results) < MaxResults
RoomForAdjustment == BagCardinality(adjustments) < MaxAdjustments
RoomForReset == Cardinality(resets) < MaxResets

\* the steps of the game and of submitResult in tab t
TabStep(t) ==
  \/ \E u \in TabUsers(t) : OpenGame(t, u)
  \/ GameEnd(t)
  \/ SubmitCheck(t)
  \/ \E o \in Outcomes : RoomForResult /\ SubmitInsert(t, o.guessCount, o.solved)
  \/ PersonalCheck(t)
  \/ \E o \in Outcomes : RoomForResult /\ PersonalInsert(t, o.guessCount, o.solved)
  \/ CloseTab(t)

Move ==
  \/ \E m \in Movers : joinGroup(m[1], m[2])
  \/ \E m \in Movers : leaveGroup(m[1], m[2])

Admin ==
  \/ \E a \in Actors, g \in AdminGroups, u \in Actors, d \in Deltas :
        RoomForAdjustment /\ handleAdjustScore(a, g, u, d)
  \/ \E a \in Actors, g \in AdminGroups : RoomForReset /\ ResetResults(a, g)
  \/ \E a \in Actors, g \in AdminGroups : ResetAdjustments(a, g)

\* one day with one browser tab, used by A or by B, and every operation on the group
Next ==
  \/ TabStep(1)
  \/ Move
  \/ Admin

\* several days with two browser tabs, the second one used by B, and no admin operation
NextTabs ==
  \/ \E t \in Tabs : TabStep(t)
  \/ Move
  \/ Tick

\* several days with one browser tab, used by A or by B, and no admin operation
NextDays ==
  \/ TabStep(1)
  \/ Move
  \/ Tick

\* createGroup was called for both groups, and the creator of G2 has joined G1
InitGroups ==
  /\ today = 0
  /\ hour = 0
  /\ txs = {}
  /\ mode = "view"
  /\ snapshot = {}
  /\ members = { [user |-> Creator(g), group |-> g, joined_at |-> 0, is_admin |-> TRUE] :
                 g \in Groups }
               \cup { [user |-> Creator("G2"), group |-> "G1", joined_at |-> 0,
                       is_admin |-> FALSE] }
  /\ results = {}
  /\ adjustments = EmptyBag
  /\ progress = {}
  /\ tabs = [t \in Tabs |-> ClosedTab]
  /\ resets = {}

\* the admin operations of any user on any group
AdminAll ==
  \/ \E a \in Actors, g \in Groups, u \in Actors, d \in Deltas :
        RoomForAdjustment /\ handleAdjustScore(a, g, u, d)
  \/ \E a \in Actors, g \in Groups : RoomForReset /\ ResetResults(a, g)
  \/ \E a \in Actors, g \in Groups : ResetAdjustments(a, g)

\* the steps of the game and of submitResult in tab t for a user who has groups
GroupTabStep(t) ==
  \/ \E u \in TabUsers(t) : OpenGame(t, u)
  \/ GameEnd(t)
  \/ SubmitCheck(t)
  \/ \E o \in Outcomes : RoomForResult /\ SubmitInsert(t, o.guessCount, o.solved)
  \/ CloseTab(t)

\* one day with one browser tab and two groups, every admin operation on both groups
NextGroups ==
  \/ GroupTabStep(1)
  \/ AdminAll

SpecGroups == InitGroups /\ [][NextGroups]_vars

\* both groups exist, B is a member of both, and leaderboard_scores is the materialized
\* view, refreshed once when created
InitCachedGroups ==
  /\ today = 0
  /\ hour = 0
  /\ txs = {}
  /\ mode = "matview"
  /\ members = { [user |-> Creator(g), group |-> g, joined_at |-> 0, is_admin |-> TRUE] :
                 g \in Groups }
               \cup { [user |-> Creator("G2"), group |-> "G1", joined_at |-> 0,
                       is_admin |-> FALSE] }
  /\ results = {}
  /\ adjustments = EmptyBag
  /\ snapshot = leaderboard_scores(members, results, adjustments)
  /\ progress = {}
  /\ tabs = [t \in Tabs |-> ClosedTab]
  /\ resets = {}

\* one day with one browser tab and two groups in cached mode, while B leaves and joins
NextCachedGroups ==
  \/ GroupTabStep(1)
  \/ Move
  \/ AdminAll

SpecCachedGroups == InitCachedGroups /\ [][NextCachedGroups]_vars

\* one game after the other in one browser tab, guess by guess, on one day
NextGame ==
  \/ \E u \in TabUsers(1) : EnterGame(1, u)
  \/ \E correct \in BOOLEAN : handleEnter(1, correct)
  \/ GameTimeout(1)
  \/ handleGameEnd(1)
  \/ SubmitCheck(1)
  \/ RoomForResult /\ SubmitInsert(1, tabs[1].board.final, tabs[1].board.won)
  \/ PersonalCheck(1)
  \/ RoomForResult /\ PersonalInsert(1, tabs[1].board.final, tabs[1].board.won)
  \/ CloseTab(1)

SpecGame == Init /\ [][NextGame]_vars

Spec == Init /\ [][Next]_vars

SpecDays == Init /\ [][NextDays]_vars

SpecCached == InitCached /\ [][Next]_vars

SpecTabs == Init /\ [][NextTabs]_vars

\* no group exists yet: personal plays on devices in several time zones, hour by hour
InitZones ==
  /\ today = 0
  /\ hour = 0
  /\ txs = {}
  /\ mode = "view"
  /\ snapshot = {}
  /\ members = {}
  /\ results = {}
  /\ adjustments = EmptyBag
  /\ progress = {}
  /\ tabs = [t \in Tabs |-> ClosedTab]
  /\ resets = {}

NextZones ==
  \/ \E u \in Actors, tz \in Zones : OpenGameAt(1, u, tz)
  \/ GameEndAt(1)
  \/ PersonalCheck(1)
  \/ \E gc \in SolvedGuesses : RoomForResult /\ PersonalInsert(1, gc, TRUE)
  \/ CloseTab(1)
  \/ Advance

SpecZones == InitZones /\ [][NextZones]_vars

\* leaderboard_scores is the view of the UTC-12 finalized policy and the devices are on
\* UTC: results come in, hour by hour, while B joins and leaves
InitFinalized ==
  /\ InitDb
  /\ mode = "finalized"
  /\ snapshot = {}

NextFinalized ==
  \/ \E u \in TabUsers(1) : OpenGameUtc(1, u)
  \/ GameEndUtc(1)
  \/ SubmitCheck(1)
  \/ \E o \in Outcomes : RoomForResult /\ SubmitInsertUtc(1, o.guessCount, o.solved)
  \/ CloseTab(1)
  \/ Move
  \/ Advance

SpecFinalized == InitFinalized /\ [][NextFinalized]_vars

\* the identifiers of the transactions: the tab of a submitResult, 0 for the dialog
TxIds == Tabs \cup {0}

\* leaderboard_scores is the materialized view; B has joined the group of A
InitRefresh ==
  /\ today = 0
  /\ hour = 0
  /\ txs = {}
  /\ mode = "matview"
  /\ members = { [user |-> "A", group |-> "G1", joined_at |-> 0, is_admin |-> TRUE],
                 [user |-> "B", group |-> "G1", joined_at |-> 0, is_admin |-> FALSE] }
  /\ results = {}
  /\ adjustments = EmptyBag
  /\ snapshot = leaderboard_scores(members, results, adjustments)
  /\ progress = {}
  /\ tabs = [t \in Tabs |-> ClosedTab]
  /\ resets = {}

\* the user of tab t
PlayerOf(t) == IF t = 1 THEN "A" ELSE "B"

\* the rows that are stored or about to be
RoomForWrite ==
  Cardinality(results \cup UNION { tx.res : tx \in txs }) < MaxResults

\* one day, A and B each in a browser tab and the dialog of the admin, every write a
\* transaction
NextRefresh ==
  \/ \E t \in Tabs : OpenGame(t, PlayerOf(t))
  \/ \E t \in Tabs : GameEnd(t)
  \/ \E t \in Tabs : SubmitCheck(t)
  \/ \E t \in Tabs, gc \in SolvedGuesses : RoomForWrite /\ BeginInsert(t, gc, TRUE)
  \/ \E g \in AdminGroups, d \in Deltas :
       RoomForAdjustment /\ BeginAdjust(Creator(g), g, PlayerOf(2), d)
  \/ \E id \in TxIds : RefreshTx(id)
  \/ \E id \in TxIds : CommitTx(id)
  \/ \E t \in Tabs, g \in Groups : fetchLeaderboard(t, g)
  \/ \E t \in Tabs : CloseTab(t)

SpecRefresh == InitRefresh /\ [][NextRefresh]_vars

\* cached mode with refreshes that can fail: A in one browser tab and the dialog of the
\* admin
NextFailing ==
  \/ OpenGame(1, PlayerOf(1))
  \/ GameEnd(1)
  \/ SubmitCheck(1)
  \/ \E gc \in SolvedGuesses : RoomForWrite /\ BeginInsert(1, gc, TRUE)
  \/ \E g \in AdminGroups, u \in Actors, d \in Deltas :
       RoomForAdjustment /\ BeginAdjust(Creator(g), g, u, d)
  \/ \E id \in TxIds : RefreshTx(id)
  \/ \E id \in TxIds : CommitTx(id)
  \/ \E id \in TxIds : FailTx(id)
  \/ \E id \in TxIds : ReturnTx(id)
  \/ \E g \in Groups : fetchLeaderboard(1, g)
  \/ CloseTab(1)

SpecFailing == InitRefresh /\ [][NextFailing]_vars

\* one page in tab 1, used by A or by B on one day; slot 2 holds the submitResult call
\* that a second run of the game-end effect of the page starts
NextRerun ==
  \/ \E u \in TabUsers(1) : OpenGame(1, u)
  \/ GameEnd(1)
  \/ RerunGameEnd(1, 2)
  \/ \E t \in Tabs : SubmitCheck(t)
  \/ \E t \in Tabs, o \in Outcomes : RoomForResult /\ SubmitInsert(t, o.guessCount, o.solved)
  \/ \E t \in Tabs : PersonalCheck(t)
  \/ \E t \in Tabs, o \in Outcomes : RoomForResult /\ PersonalInsert(t, o.guessCount, o.solved)
  \/ \E t \in Tabs : CloseTab(t)

SpecRerun == Init /\ [][NextRerun]_vars

\* ------------------------------------------------------------ the example
\* Section 8 of the specification: members A, B, C; day D1 (day 0): A and B solve in 3,
\* C does not solve; day D2 (day 1): only A plays and solves in 5; the admin adjusts C
\* by +2.
ExampleRows ==
  { <<"A", "G1", 0, 3, TRUE>>, <<"B", "G1", 0, 3, TRUE>>, <<"C", "G1", 0, 6, FALSE>>,
    <<"A", "G1", 1, 5, TRUE>> }

ExampleOutcome(u, d) ==
  IF d = 0 THEN (IF u = "C" THEN [guessCount |-> 6, solved |-> FALSE]
                 ELSE [guessCount |-> 3, solved |-> TRUE])
  ELSE [guessCount |-> 5, solved |-> TRUE]

InitExample ==
  /\ today = 0
  /\ hour = 0
  /\ txs = {}
  /\ mode = "view"
  /\ snapshot = {}
  /\ members = { [user |-> u, group |-> "G1", joined_at |-> 0,
                  is_admin |-> (u = Creator("G1"))] : u \in Users }
  /\ results = {}
  /\ adjustments = EmptyBag
  /\ progress = {}
  /\ tabs = [t \in Tabs |-> ClosedTab]
  /\ resets = {}

NextExample ==
  \/ \E t \in Tabs, u \in Users : (today = 0 \/ u = "A") /\ OpenGame(t, u)
  \/ \E t \in Tabs : GameEnd(t)
  \/ \E t \in Tabs : SubmitCheck(t)
  \/ \E t \in Tabs :
        /\ Cardinality(results) < Cardinality(ExampleRows)
        /\ LET o == ExampleOutcome(tabs[t].user, tabs[t].localDate)
           IN  SubmitInsert(t, o.guessCount, o.solved)
  \/ \E t \in Tabs : CloseTab(t)
  \/ adjustments = EmptyBag /\ handleAdjustScore("A", "G1", "C", 2)
  \/ Tick

SpecExample == InitExample /\ [][NextExample]_vars

\* ------------------------------------------------------------------ claims
Days == 0..MaxDay

\* the users with a point for group g and date d among the rows pes of point_earners
Awarded(pes, g, d) == { pe.user : pe \in { x \in pes : x.group = g /\ x.local_date = d } }

\* the solved results of group g and date d
SolvedOf(g, d) == { r \in results : r.group = g /\ r.local_date = d /\ r.solved }

\* the users with a solved result of (g, d) that no solved result of (g, d) beats
Winners(g, d) ==
  { r.user : r \in { x \in SolvedOf(g, d) :
                       \A y \in SolvedOf(g, d) : x.guess_count <= y.guess_count } }

\* C1: for every group and date the users awarded a point are exactly the users with a
\* solved result whose guess count is the minimum over the solved results of that group
\* and date (nobody when there is no solved result), and the unsolved results change
\* nothing: the awards computed without them are the same.
C1_WinnersAreMinimumSolved ==
  LET pes == point_earners(results)
      pesOfSolved == point_earners({ r \in results : r.solved })
  IN  \A g \in Groups, d \in Days :
        /\ Awarded(pes, g, d) = Winners(g, d)
        /\ (SolvedOf(g, d) = {} => Awarded(pes, g, d) = {})
        /\ Awarded(pes, g, d) = Awarded(pesOfSolved, g, d)

\* an unsolved result and a solved one with the same guess count in one group and date:
\* only the solved one is awarded
C1_Witness ==
  \E r1, r2 \in results :
    /\ r1.group = r2.group /\ r1.group # NULL /\ r1.local_date = r2.local_date
    /\ r1.solved /\ ~ r2.solved /\ r1.guess_count = r2.guess_count
    /\ r1.user # r2.user
    /\ Awarded(point_earners(results), r1.group, r1.local_date) = {r1.user}

\* the four results and the adjustment of the example, and nothing else, are stored
C2_Done ==
  /\ Cardinality(results) = Cardinality(ExampleRows)
  /\ { <<r.user, r.group, r.local_date, r.guess_count, r.solved>> : r \in results } =
       ExampleRows
  /\ adjustments = SetToBag({ [group |-> "G1", user |-> "C", adjustment |-> 2,
                               adjusted_by |-> "A"] })

\* C2: once the four submissions and the adjustment of the example are made, in whatever
\* order, the leaderboard of the group is A: games_won 2, total 2; B: games_won 1,
\* total 1; C: games_won 0, total 2.
C2_ExampleLeaderboard ==
  C2_Done =>
    getLeaderboard("G1") =
      { [group |-> "G1", user |-> "A", total_score |-> 2, games_won |-> 2],
        [group |-> "G1", user |-> "B", total_score |-> 1, games_won |-> 1],
        [group |-> "G1", user |-> "C", total_score |-> 2, games_won |-> 0] }

\* the example is complete and C, who never won, is served with the adjusted total
C2_Witness ==
  /\ C2_Done
  /\ \E e \in getLeaderboard("G1") : e.user = "C" /\ e.games_won = 0 /\ e.total_score = 2

\* SUM(adjustment) of the stored adjustments of (g, u)
AdjustmentSum(g, u) ==
  SumAdjustment(adjustments, { a \in BagToSet(adjustments) : a.group = g /\ a.user = u })

\* C3: every served entry has total_score = games_won + the sum of the stored adjustments
\* of its group and user, and the served leaderboard equals the one recomputed from the
\* stored results, adjustments and memberships.
C3_ServedIsRecomputed ==
  \A g \in Groups :
    /\ getLeaderboard(g) =
         { e \in leaderboard_scores(members, results, adjustments) : e.group = g }
    /\ \A e \in getLeaderboard(g) :
         e.total_score = e.games_won + AdjustmentSum(e.group, e.user)

\* C4: games_won of every served entry is the number of dates of its group on which its
\* user is a winner: at most one point per group and date.
C4_OnePointPerDay ==
  \A e \in Served :
    e.games_won = Cardinality({ d \in Days : e.user \in Winners(e.group, d) })

\* C5: the leaderboard of a group has exactly one entry for every current member and no
\* entry for anybody else.
C5_ExactlyCurrentMembers ==
  \A g \in Groups :
    LET current == { m.user : m \in { x \in members : x.group = g } }
    IN  /\ { e.user : e \in getLeaderboard(g) } = current
        /\ Cardinality(getLeaderboard(g)) = Cardinality(current)

\* member m has no result and no adjustment in its group
NoActivity(m) ==
  /\ ~ \E r \in results : r.user = m.user /\ r.group = m.group
  /\ ~ \E a \in BagToSet(adjustments) : a.user = m.user /\ a.group = m.group

\* C6: every current member of a group without result and without adjustment in it is on
\* the group's leaderboard with total_score 0 and games_won 0.
C6_IdleMemberHasZero ==
  \A m \in members :
    NoActivity(m) =>
      [group |-> m.group, user |-> m.user, total_score |-> 0, games_won |-> 0]
        \in getLeaderboard(m.group)

\* an idle member is listed with 0 next to a member whose score is not 0
C6_Witness ==
  \E m \in members :
    /\ NoActivity(m)
    /\ \E e \in getLeaderboard(m.group) : e.user = m.user /\ e.total_score = 0
    /\ \E e \in getLeaderboard(m.group) : e.user # m.user /\ e.games_won > 0

\* C7: when handleResetScores of an admin of the group completes, no result and no
\* adjustment of the group is stored and every entry of its leaderboard is 0.
C7_ResetClearsGroup ==
  [][ \A a \in Users, g \in Groups :
        (IsAdmin(members, a, g) /\ ResetAdjustments(a, g)) =>
          /\ ~ \E r \in results' : r.group = g
          /\ ~ \E x \in BagToSet(adjustments') : x.group = g
          /\ \A e \in getLeaderboard(g)' : e.total_score = 0 /\ e.games_won = 0 ]_vars

\* C8: a submission for a user, group and date that already have a stored result adds
\* nothing, and no stored result is changed or removed by a submission.
C8_DuplicateRejected ==
  [][ /\ \A r \in results' \ results :
           ~ \E q \in results : /\ q.user = r.user
                                /\ q.group = r.group
                                /\ q.local_date = r.local_date
      /\ results \subseteq results' ]_vars

\* C9: at most one stored result per user, group and local date, and at most one personal
\* result (group NULL) per user and local date.
C9_OneResultPerDay ==
  \A r, q \in results :
    (r.user = q.user /\ r.group = q.group /\ r.local_date = q.local_date) => r = q

\* C10: every adjustment that gets stored is inserted by a user who is then an admin of
\* its group: an insert attempted by anybody else adds no row, so that it leaves the
\* adjustments, and with them the leaderboard, as they were.
C10_OnlyAdminsAdjust ==
  [][ adjustments' # adjustments =>
        \A row \in BagToSet(adjustments') :
          CopiesIn(row, adjustments') > CopiesIn(row, adjustments) =>
            IsAdmin(members, row.adjusted_by, row.group) ]_vars

\* an adjustment of the admin is stored in a group that has a member who is no admin
C10_Witness ==
  \E row \in BagToSet(adjustments) :
    /\ IsAdmin(members, row.adjusted_by, row.group)
    /\ \E m \in members : m.group = row.group /\ ~ m.is_admin

\* C11: a step that removes a result is the first delete of a reset by an admin of the
\* result's group, and a step that removes an adjustment is the second delete of a reset
\* by an admin of the adjustment's group: a reset by anybody else removes nothing, and
\* a reset of one group removes nothing of another group.
C11_ResetNeedsAdmin ==
  [][ /\ \A r \in results \ results' :
           \E p \in resets' \ resets : IsAdmin(members, p[1], p[2]) /\ r.group = p[2]
      /\ \A x \in BagToSet(adjustments) :
           CopiesIn(x, adjustments') < CopiesIn(x, adjustments) =>
             \E p \in resets \ resets' : IsAdmin(members, p[1], p[2]) /\ x.group = p[2]
    ]_vars

\* the first delete of a reset by a user who is no admin of the group has run and a
\* result of the group is stored, next to a result of the other group
C11_Witness ==
  \E p \in resets :
    /\ ~ IsAdmin(members, p[1], p[2])
    /\ \E r \in results : r.group = p[2]
    /\ \E r \in results : r.group \in Groups \ {p[2]}

\* the tabs in which submitResult or submitPersonalResult is running
Submitting == { t \in Tabs : tabs[t].st \in {"check", "insert", "pcheck", "pinsert"} }

\* C12: every stored result has a guess count in 1..6, and every submission that the
\* game-end path makes carries a guess count in 1..6.
C12_GuessCountInRange ==
  /\ \A r \in results : r.guess_count \in 1..6
  /\ \A t \in Submitting : tabs[t].board.final \in 1..6

\* the stored results without the personal plays
GroupResults == { r \in results : r.group # NULL }

\* C13: the personal plays contribute to no leaderboard: every group's leaderboard is the
\* one computed from the stored results without the personal plays.
C13_PersonalPlaysDoNotCount ==
  \A g \in Groups :
    getLeaderboard(g) =
      { e \in leaderboard_scores(members, GroupResults, adjustments) : e.group = g }

\* a member of a group has a solved personal play stored and no point
C13_Witness ==
  \E r \in results :
    /\ r.group = NULL /\ r.solved
    /\ \E e \in Served : e.user = r.user /\ e.games_won = 0

IsCalendarDateAt(d, tz) == d * 24 <= now + tz /\ now + tz < (d + 1) * 24

\* C15: under the local-date policy the local_date stored with a result is, for every
\* instant and every time zone of the submitter, the calendar date that the
\* submitter's own clock shows at the instant of the submission, not the UTC date
C15_LocalDateIsSubmittersDate ==
  [][ /\ \A t \in Tabs :
           tabs[t].st = "playing" /\ tabs'[t].st = "pcheck" =>
             IsCalendarDateAt(tabs'[t].localDate, tabs[t].tz)
      /\ \A r \in results' \ results :
           \E t \in Tabs : /\ tabs[t].st = "pinsert"
                           /\ tabs[t].user = r.user
                           /\ r.local_date = tabs[t].localDate ]_vars

\* a result is stored under a local date that the UTC calendar has not reached
C15_Witness == \E r \in results : r.local_date > today

PendingResults == { r \in results : now < r.utc_date * 24 + 36 }

\* the rows that win their day: solved in the fewest guesses of all results of their
\* group and utc_date
WinningResults ==
  { r \in results :
      /\ r.solved
      /\ r.group # NULL
      /\ \A q \in results :
           q.solved /\ q.group = r.group /\ q.utc_date = r.utc_date =>
             r.guess_count <= q.guess_count }

\* C17: under the UTC-12 finalized policy no result of a pending day contributes to
\* a games_won or total_score that the leaderboard serves, and the served scores
\* count the winners of every finalized day, computed over all results of that day
C17_PendingDaysDoNotCount ==
  mode = "finalized" =>
    /\ Served = leaderboard_scores_finalized(members, results \ PendingResults,
                                              adjustments)
    /\ \A e \in Served :
         /\ e.games_won =
              Cardinality({ r \in WinningResults \ PendingResults :
                              r.user = e.user /\ r.group = e.group })
         /\ e.total_score = e.games_won + AdjustmentSum(e.group, e.user)

\* a winner of a finalized day is served with the point, while a solved result of a
\* pending day waits
C17_Witness ==
  /\ mode = "finalized"
  /\ \E e \in Served : e.games_won > 0
  /\ \E r \in PendingResults : r.solved /\ r.group # NULL

\* C18: in cached mode every insert and delete of a result or an adjustment runs a
\* refresh, so that whenever no refresh is in progress every served entry shows the
\* scores of the committed results and adjustments
C18_SnapshotReflectsWrites ==
  mode = "matview" /\ txs = {} =>
    \A e \in Served :
      /\ e.games_won = EarnedOrZero(earned_scores(results), e.group, e.user)
      /\ e.total_score = e.games_won + AdjustmentSum(e.group, e.user)

\* C19: in cached mode a read of a leaderboard is never blocked by a write or a refresh
\* in progress, and it returns the rows of its group from the complete result of the
\* refresh that was committed last; the contents change only as a whole, to the
\* result of one refresh
C19_ReadsSeeOneRefresh ==
  /\ [](mode = "matview" => ~ ReadBlocked)
  /\ [][ /\ \A t \in Tabs :
             tabs'[t].st = "board" /\ tabs[t].st # "board" =>
               tabs'[t].entries = { e \in snapshot : e.group = tabs'[t].group }
        /\ snapshot' # snapshot =>
             \E tx \in Refreshing : tx \notin txs' /\ snapshot' = tx.fresh ]_vars

\* a leaderboard has been read while a refresh holds its lock and has new contents
\* that are not committed
C19_Witness ==
  \E t \in Tabs :
    /\ tabs[t].st = "board"
    /\ \E tx \in Refreshing : tx.fresh # snapshot
    /\ tabs[t].entries = getLeaderboard(tabs[t].group)

\* C20: two refreshes that concurrent writes to one group have triggered serialize:
\* once both have completed, the snapshot is the full recompute over the tables with
\* both writes
C20_RefreshesSerialize ==
  [][ txs # {} /\ txs' = {} =>
        snapshot' = leaderboard_scores(members', results', adjustments') ]_vars

\* C21: a reset of group g by an admin publishes no snapshot computed from a state in
\* which only part of the data of g is deleted (the statement that deletes the results
\* leaves the served entries of g as they were or at 0), and when the reset has
\* completed, the served entries of g are those of the empty state
C21_ResetRefreshesOnce ==
  [][ \A a \in Users, g \in Groups :
        IsAdmin(members, a, g) =>
          /\ ResetResults(a, g) =>
               \/ getLeaderboard(g)' = getLeaderboard(g)
               \/ \A e \in getLeaderboard(g)' : e.total_score = 0 /\ e.games_won = 0
          /\ ResetAdjustments(a, g) =>
               \A e \in getLeaderboard(g)' : e.total_score = 0 /\ e.games_won = 0 ]_vars

\* the transactions whose refresh has failed and whose request has not returned yet
Aborted == { tx \in txs : tx.st = "aborted" }

C23_FailedRefreshIsAbsorbed ==
  /\ [](\A tx \in Aborted :
          /\ tx.res \subseteq results
          /\ \A a \in BagToSet(tx.adj) : CopiesIn(a, adjustments) > 0)
  /\ [](mode = "matview" /\ Aborted # {} => ~ ReadBlocked)

\* the groups of the results and adjustments that a step inserts or deletes
WrittenGroups ==
  { r.group : r \in (results' \ results) \cup (results \ results') }
    \cup { x.group : x \in { y \in BagToSet(adjustments) \cup BagToSet(adjustments') :
                               CopiesIn(y, adjustments) # CopiesIn(y, adjustments') } }

\* C24: writes for different groups are independent: a step that inserts or deletes
\* results or adjustments leaves the leaderboard served for every group it does not
\* write to unchanged, in cached mode as well as in recompute-on-read mode
C24_OtherGroupsUnchanged ==
  [][ \A g \in Groups :
        WrittenGroups # {} /\ g \notin WrittenGroups =>
          getLeaderboard(g)' = getLeaderboard(g) ]_vars

\* the scores that the stored results and adjustments give user u in group g
ScoreOf(u, g) ==
  LET won == EarnedOrZero(earned_scores(results), g, u)
  IN  [games_won |-> won, total_score |-> won + AdjustmentSum(g, u)]

\* the scores of the entry of user u in the leaderboard served for group g
EntryOf(u, g) ==
  { [games_won |-> e.games_won, total_score |-> e.total_score] :
    e \in { x \in getLeaderboard(g) : x.user = u } }

C26_LeaveKeepsOthers ==
  [][ \A m \in Movers :
        leaveGroup(m[1], m[2]) =>
          getLeaderboard(m[2])' = { e \in getLeaderboard(m[2]) : e.user # m[1] } ]_vars

\* a user has left the group and their stored result still beats the solved result of
\* a member on the same day, who is served without the point
C26_Witness ==
  \E r \in results, q \in results :
    /\ r.group # NULL /\ q.group = r.group /\ q.local_date = r.local_date
    /\ r.solved /\ q.solved /\ r.guess_count < q.guess_count
    /\ ~ IsMember(members, r.user, r.group)
    /\ \E e \in getLeaderboard(q.group) : e.user = q.user /\ e.games_won = 0

\* the groups that the submitResult call started in tab t visits or has still to visit
Visited(tab) == {tab.cur.group} \cup { grp.id : grp \in tab.todo }

\* C27: when the game of a user ends, submitResult is called with every group the user
\* is a member of at that moment, a group joined in the groups panel during the session
\* included, and a user who is a member of a group gets no personal submission
C27_SubmitsToEveryGroup ==
  [][ \A t \in Tabs :
        GameEnd(t) =>
          LET mine == { grp.id : grp \in fetchGroups(tabs[t].user) }
          IN  /\ mine # {} => tabs'[t].st = "check"
              /\ tabs'[t].st = "check" => Visited(tabs'[t]) = mine ]_vars

\* the existence check of submitResult in tab t: a row of the user for the group with
\* the day_index that was computed for the group
ExistingByDayIndex(t) ==
  \E r \in results :
    /\ CanSelectResult(tabs[t].user, r)
    /\ r.user = tabs[t].user
    /\ SqlEq(r.group, tabs[t].cur.group)
    /\ r.day_index = tabs[t].cur.day_index

\* C28: on the day the game ended, the existence check of submitResult (by day_index)
\* finds a row exactly when hasSubmittedToday (by local_date) does, so that a user
\* without a result for today is never skipped as already submitted
C28_DuplicateCheckIsByDay ==
  \A t \in Tabs :
    tabs[t].st = "check" /\ tabs[t].localDate = getLocalDate =>
      (ExistingByDayIndex(t) <=> hasSubmittedToday(tabs[t].user, tabs[t].cur.group))

\* the tabs whose game is decided and still on the board
Decided == { t \in Tabs : tabs[t].st = "playing" /\ tabs[t].board.final # 0 }

\* C29: once the game is decided no further guess is accepted: while the board is shown
\* turn and the guess count captured for the submission stay as they are and the saved
\* finished game is not overwritten by a game in progress, and turn never exceeds 6
C29_NoGuessAfterDecision ==
  /\ [][ \A t \in Decided :
           tabs'[t].st = "playing" =>
             /\ tabs'[t].board.turn = tabs[t].board.turn
             /\ tabs'[t].board.final = tabs[t].board.final
             /\ tabs[t].user \in progress => tabs[t].user \in progress' ]_vars
  /\ [](\A t \in Tabs : tabs[t].st = "playing" => tabs[t].board.turn <= 6)

\* C30: for one completed game submitResult is invoked at most once: a second run of
\* the game-end effect while the first call is awaited starts no second call, so no two
\* calls of the page of one user are under way together
C30_SubmitResultOnce ==
  \A t \in Submitting, s \in Submitting : tabs[t].user = tabs[s].user => t = s

====
